---- MODULE Spec2Model ----
(***************************************************************************)
(* A model of tools/parsers/hp_workplace.py: parse(body, pdf_filename),    *)
(* the extraction of one carbon-footprint record from one HP PDF report.   *)
(*                                                                         *)
(* Text is a sequence of one-character strings.  Numbers are exact         *)
(* rationals [n, d] in lowest terms (Python computes in binary floating    *)
(* point; the two agree except within rounding error of a threshold).      *)
(* A value stored in a dict is a record [t, n, d, s]: t = "none" (None),   *)
(* "num" (a float n/d) or "str" (the text s).                              *)
(***************************************************************************)
EXTENDS Integers, Sequences, FiniteSets, TLC

\* ------------------------------------------------------------- bounds
\* The most anchor occurrences pdf.search_text returns for one phrase.
MaxAnchors == 2
\* The most embedded images pdf.list_images returns.
MaxImages == 2

\* ------------------------------------------------------------- rationals
RECURSIVE Gcd(_, _)
Gcd(a, b) ==
    IF b = 0 THEN a ELSE Gcd(b, a % b)

Abs(x) ==
    IF x < 0 THEN -x ELSE x

\* The rational n/d in lowest terms, d > 0.
Rat(n, d) ==
    LET g == Gcd(Abs(n), Abs(d))
        sg == IF d < 0 THEN -1 ELSE 1
    IN  [n |-> sg * (n \div g), d |-> sg * (d \div g)]

RMul(a, b) ==
    Rat(a.n * b.n, a.d * b.d)

\* a / b, b # 0.
RDiv(a, b) ==
    Rat(a.n * b.d, a.d * b.n)

RSub(a, b) ==
    Rat(a.n * b.d - b.n * a.d, a.d * b.d)

RAbs(a) ==
    [n |-> Abs(a.n), d |-> a.d]

RLt(a, b) ==
    a.n * b.d < b.n * a.d

RInt(k) ==
    [n |-> k, d |-> 1]

\* Python's round(x) of a float x >= 0: the nearest integer, a tie going to
\* the even one.
PyRound(a) ==
    LET q == (2 * a.n + a.d) \div (2 * a.d)
        tie == (2 * a.n + a.d) % (2 * a.d) = 0
    IN  IF tie /\ q % 2 = 1 THEN q - 1 ELSE q

\* Python's round(x, 4).
PyRound4(a) ==
    Rat(PyRound(RMul(a, RInt(10000))), 10000)

\* ------------------------------------------------------------- values
None ==
    [t |-> "none", n |-> 0, d |-> 1, s |-> <<>>]

Num(r) ==
    [t |-> "num", n |-> r.n, d |-> r.d, s |-> <<>>]

Str(s) ==
    [t |-> "str", n |-> 0, d |-> 1, s |-> s]

RatOf(v) ==
    [n |-> v.n, d |-> v.d]

\* Python truthiness of a stored value.
Truthy(v) ==
    CASE v.t = "none" -> FALSE
      [] v.t = "num" -> v.n # 0
      [] OTHER -> v.s # <<>>

\* dict helpers: a dict is a function from its keys.
Has(m, k) ==
    k \in DOMAIN m

Put(m, k, v) ==
    [x \in DOMAIN m \cup {k} |-> IF x = k THEN v ELSE m[x]]

EmptyDict ==
    [x \in {} |-> None]

\* ------------------------------------------------------------- text
DigitChars ==
    {"0", "1", "2", "3", "4", "5", "6", "7", "8", "9"}

DigitVal(c) ==
    CASE c = "0" -> 0 [] c = "1" -> 1 [] c = "2" -> 2 [] c = "3" -> 3
      [] c = "4" -> 4 [] c = "5" -> 5 [] c = "6" -> 6 [] c = "7" -> 7
      [] c = "8" -> 8 [] OTHER -> 9

RECURSIVE LStrip(_)
LStrip(s) ==
    IF s # <<>> /\ Head(s) = " " THEN LStrip(Tail(s)) ELSE s

RECURSIVE RStrip(_)
RStrip(s) ==
    IF s # <<>> /\ s[Len(s)] = " " THEN RStrip(SubSeq(s, 1, Len(s) - 1)) ELSE s

\* str.strip()
Strip(s) ==
    RStrip(LStrip(s))

\* str.replace(' ', '')
RECURSIVE RemoveSpaces(_)
RemoveSpaces(s) ==
    IF s = <<>> THEN <<>>
    ELSE IF Head(s) = " " THEN RemoveSpaces(Tail(s))
    ELSE <<Head(s)>> \o RemoveSpaces(Tail(s))

\* Whether sub occurs in s at position i.
OccursAt(sub, s, i) ==
    /\ i + Len(sub) - 1 <= Len(s)
    /\ SubSeq(s, i, i + Len(sub) - 1) = sub

\* Python's `sub in s`.
Contains(sub, s) ==
    \E i \in 1..(Len(s) + 1) : OccursAt(sub, s, i)

\* str.replace(old, ''), old non-empty: every non-overlapping occurrence,
\* left to right.
RECURSIVE Remove(_, _)
Remove(old, s) ==
    IF s = <<>> THEN <<>>
    ELSE IF OccursAt(old, s, 1) THEN Remove(old, SubSeq(s, Len(old) + 1, Len(s)))
    ELSE <<Head(s)>> \o Remove(old, Tail(s))

\* The value of a digit string read in base ten.
RECURSIVE DigitsValue(_)
DigitsValue(s) ==
    IF s = <<>> THEN 0
    ELSE 10 * DigitsValue(SubSeq(s, 1, Len(s) - 1)) + DigitVal(s[Len(s)])

RECURSIVE Pow10(_)
Pow10(k) ==
    IF k = 0 THEN 1 ELSE 10 * Pow10(k - 1)

\* Python's float(s) on text over digits, '.' and ' ': surrounding blanks
\* are ignored; what is left must be digits with at most one '.', and hold
\* a digit.  FloatOk is "no ValueError", FloatOf the value.
FloatOk(s) ==
    LET u == Strip(s)
        dots == {i \in 1..Len(u) : u[i] = "."}
    IN  /\ \A i \in 1..Len(u) : u[i] \in DigitChars \cup {"."}
        /\ Cardinality(dots) <= 1
        /\ \E i \in 1..Len(u) : u[i] \in DigitChars

FloatOf(s) ==
    LET u == Strip(s)
        dots == {i \in 1..Len(u) : u[i] = "."}
        p == IF dots = {} THEN Len(u) + 1 ELSE CHOOSE i \in dots : TRUE
        whole == SubSeq(u, 1, p - 1)
        frac == SubSeq(u, p + 1, Len(u))
    IN  Rat(DigitsValue(whole \o frac), Pow10(Len(frac)))

\* ------------------------------------------------------------- pattern library
\* The languages of the named groups of _HP_DESK_PATTERNS and of the
\* fallback pattern sets, over the alphabet digits, '.', ' '.
AllDigits(s) ==
    \A i \in 1..Len(s) : s[i] \in DigitChars

\* [0-9]*
InDigits(s) ==
    AllDigits(s)

\* [0-9]*\.[0-9]*
InDottedDecimal(s) ==
    \E p \in 1..Len(s) :
        /\ s[p] = "."
        /\ AllDigits(SubSeq(s, 1, p - 1))
        /\ AllDigits(SubSeq(s, p + 1, Len(s)))

\* [0-9]*\.?[0-9]*
InDecimal(s) ==
    AllDigits(s) \/ InDottedDecimal(s)

\* [0-9]*\.?\s*[0-9]*
InSpacedDecimal(s) ==
    \E p \in 0..Len(s), q \in 0..Len(s) :
        /\ p <= q
        /\ AllDigits(SubSeq(s, 1, p)) \/ (p >= 1 /\ s[p] = "." /\ AllDigits(SubSeq(s, 1, p - 1)))
        /\ \A i \in (p + 1)..q : s[i] = " "
        /\ AllDigits(SubSeq(s, q + 1, Len(s)))

\* The named groups the primary tier can put in the extracted map, each with
\* the language of its capture (TRUE: any text).
PrimaryGroupOk(k, s) ==
    CASE k \in {"footprint", "footprint_with_error", "tolerance", "lifetime"} -> InDigits(s)
      [] k = "energy_demand" -> InDottedDecimal(s)
      [] k \in {"weight", "screen_size"} -> InSpacedDecimal(s)
      [] k \in {"gwp_use_ratio", "gwp_manufacturing_ratio", "gwp_eol_ratio", "gwp_transport_ratio"} -> InDecimal(s)
      [] k = "date" -> InDigits(s) /\ Len(s) = 4
      [] k \in {"use_location", "assembly_location"} -> s \in {<<"Europe">>, <<"North America">>, <<"China">>, <<"WW">>, <<"Worldwide">>}
      [] k = "name" -> TRUE
      [] OTHER -> FALSE

\* The six fields with a spatial fallback tier, in the order parse handles
\* them: the group name, the record field, the anchor phrase searched.
FallbackFields ==
    <<[group |-> "weight", field |-> "weight", anchor |-> "weight"],
      [group |-> "screen_size", field |-> "screen_size", anchor |-> "screen size"],
      [group |-> "assembly_location", field |-> "assembly_location", anchor |-> "manufacturing location"],
      [group |-> "lifetime", field |-> "lifetime", anchor |-> "lifetime of pro"],
      [group |-> "use_location", field |-> "use_location", anchor |-> "use location"],
      [group |-> "energy_demand", field |-> "yearly_tec", anchor |-> "energy demand"]>>

FallbackGroups ==
    {FallbackFields[i].group : i \in 1..Len(FallbackFields)}

\* What a fallback pattern set can capture for its group.
FallbackGroupOk(k, s) ==
    CASE k \in {"weight", "screen_size", "energy_demand", "lifetime"} -> InSpacedDecimal(s)
      [] OTHER -> TRUE

\* _CATEGORIES, in dict order: keyword, (category, subcategory).
CATEGORIES ==
    <<[keyword |-> <<"M", "o", "n", "i", "t", "o", "r">>, category |-> "Workplace", subcategory |-> "Monitor"],
      [keyword |-> <<"D", "e", "s", "k">>, category |-> "Workplace", subcategory |-> "Workstation"],
      [keyword |-> <<"M", "o", "b", "i", "l", "e", " ", "W", "o", "r", "k", "s", "t", "a", "t", "i", "o", "n">>, category |-> "Workplace", subcategory |-> "Laptop"],
      [keyword |-> <<"W", "o", "r", "k", "s", "t", "a", "t", "i", "o", "n">>, category |-> "Workplace", subcategory |-> "Workstation"],
      [keyword |-> <<"T", "o", "w", "e", "r">>, category |-> "Workplace", subcategory |-> "Workstation"],
      [keyword |-> <<"A", "l", "l", "-", "i", "n", "-", "O", "n", "e">>, category |-> "Workplace", subcategory |-> "Workstation"],
      [keyword |-> <<"a", "p", "t", "o", "p">>, category |-> "Workplace", subcategory |-> "Laptop"],
      [keyword |-> <<"o", "o", "k">>, category |-> "Workplace", subcategory |-> "Laptop"],
      [keyword |-> <<"T", "a", "b", "l", "e", "t">>, category |-> "Workplace", subcategory |-> "Tablet"]>>

\* The lifecycle-phase ratio fields the primary tier fills.
PhaseRatioFields ==
    {"gwp_manufacturing_ratio", "gwp_use_ratio", "gwp_eol_ratio", "gwp_transport_ratio"}

\* needed_ratios
NeededRatios ==
    PhaseRatioFields \cup {"gwp_chassis_ratio", "gwp_display_ratio", "gwp_electronics_ratio", "gwp_packaging_ratio", "gwp_psu_ratio"}

\* ------------------------------------------------------------- documents
\* A document is what the collaborators return for it:
\*   primary   text.search_all_patterns(_HP_DESK_PATTERNS, pdf2txt(body)),
\*             group name -> captured text;
\*   regions   per fallback group, for each anchor occurrence in document
\*             order, text.search_all_patterns of the fallback patterns on
\*             the neighbourhood read around it (empty: no match);
\*   images    pdf.list_images(body), each the placeholder or an image with
\*             the chart reader's output for it (phase -> share in percent);
\*   render    the chart reader's output for the lower half of page 0;
\*   filename  pdf_filename.
NamePlain ==
    <<"H", "P", " ", "E", "2", "4">>

NameTower ==
    <<"H", "P", " ", "Z", "2", " ", "T", "o", "w", "e", "r">>

NameBook ==
    <<"H", "P", " ", "P", "r", "o", "B", "o", "o", "k">>

FileName ==
    <<"d", "o", "c", "s", "/", "c", "0", ".", "p", "d", "f">>

NoRegions ==
    [g \in FallbackGroups |-> <<>>]

One(g, s) ==
    [k \in {g} |-> s]

\* A well-formed report: every primary pattern matches, no image.
BasePrimary ==
    [name |-> NamePlain, footprint |-> <<"5", "0", "0">>, date |-> <<"2", "0", "2", "0">>,
     weight |-> <<"1", ".", "5">>, screen_size |-> <<"2", "4">>, assembly_location |-> <<"China">>,
     lifetime |-> <<"4">>, use_location |-> <<"Europe">>, energy_demand |-> <<"3", "0", "0", ".">>,
     gwp_use_ratio |-> <<"3", "0">>]

Doc(primary, regions, images, render) ==
    [primary |-> primary, regions |-> regions, images |-> images,
     render |-> render, filename |-> FileName]

\* m without the keys ks.
Drop(m, ks) ==
    [k \in DOMAIN m \ ks |-> m[k]]

\* m overridden and extended by o.
Merge(m, o) ==
    [k \in DOMAIN m \cup DOMAIN o |-> IF k \in DOMAIN o THEN o[k] ELSE m[k]]

\* Optional group g with capture from S, or absent.
Opt(g, S) ==
    {EmptyDict} \cup {One(g, s) : s \in S}

\* Reports whose numeric captures vary over convertible and unconvertible
\* text, with no anchor occurrence and no image.
FootprintMaps ==
    {EmptyDict}
    \cup {One("footprint", g) : g \in {<<>>, <<"5", "0", "0">>}}
    \cup {[footprint_with_error |-> g, tolerance |-> e] : g \in {<<>>, <<"5", "0", "0">>}, e \in {<<>>, <<"2", "5">>}}

DocsCapture ==
    {Doc(Merge(Merge(Merge(Merge(Merge(Merge(Merge([name |-> NamePlain, date |-> <<"2", "0", "2", "0">>], fp), w), sc), li), en), us), ma),
         NoRegions, <<>>, EmptyDict) :
        fp \in FootprintMaps,
        w \in Opt("weight", {<<>>, <<"1", ".", "5">>, <<"1", ".", " ", "5">>}),
        sc \in Opt("screen_size", {<<".">>, <<"2", "4">>}),
        li \in Opt("lifetime", {<<>>, <<"4">>}),
        en \in Opt("energy_demand", {<<".">>, <<"3", "0", "0", ".">>}),
        us \in Opt("gwp_use_ratio", {<<>>, <<"3", "0">>, <<"1", "5", "0">>}),
        ma \in Opt("gwp_manufacturing_ratio", {<<"6", "0">>})}

\* Anchor occurrences: up to MaxAnchors neighbourhoods, each matching
\* nothing or capturing one of two texts.
RegionSeqs(g, A, B) ==
    UNION {[1..n -> {EmptyDict, One(g, A), One(g, B)}] : n \in 0..MaxAnchors}

RegionTexts(g) ==
    CASE g \in {"weight", "screen_size", "lifetime", "energy_demand"} -> <<<<"2">>, <<>>>>
      [] OTHER -> <<<<"Europe">>, <<"Asia">>>>

\* The base report with one fallback field varied: its primary capture kept
\* or missing, and any anchor occurrences for it.
DocsTier ==
    {Doc(IF keep THEN BasePrimary ELSE Drop(BasePrimary, {g}),
         [x \in FallbackGroups |-> IF x = g THEN rs ELSE <<>>], <<>>, EmptyDict) :
        <<g, keep, rs>> \in UNION {{<<h, b, r>> : b \in BOOLEAN, r \in RegionSeqs(h, RegionTexts(h)[1], RegionTexts(h)[2])} : h \in FallbackGroups}}

\* Chart reader outputs.
ChartOutputs ==
    {EmptyDict, [use |-> 0], [use |-> 30], [prod |-> 60, eol |-> 5, transp |-> 5], [use |-> 30, prod |-> 60]}

ImageOptions ==
    {[placeholder |-> TRUE, out |-> EmptyDict]} \cup {[placeholder |-> FALSE, out |-> o] : o \in ChartOutputs}

\* The base report with or without a textual use share, with up to MaxImages
\* images and any page render.
DocsChart ==
    {Doc(IF keep THEN BasePrimary ELSE Drop(BasePrimary, {"gwp_use_ratio"}), NoRegions, imgs, rd) :
        keep \in BOOLEAN,
        imgs \in UNION {[1..n -> ImageOptions] : n \in 0..MaxImages},
        rd \in {EmptyDict, [use |-> 0, eol |-> 0], [use |-> 40, prod |-> 50]}}

\* The base report with the four inputs of the electricity factor varied.
DocsCorrector ==
    {Doc(Merge(Merge(Merge(Merge(Drop(BasePrimary, {"footprint", "lifetime", "energy_demand", "gwp_use_ratio"}), us), fp), li), en),
         NoRegions, <<>>, EmptyDict) :
        us \in Opt("gwp_use_ratio", {<<"0">>, <<"1">>, <<"3", "0">>, <<"3", "4", ".", "3">>}),
        fp \in Opt("footprint", {<<>>, <<"0">>, <<"5", "0", "0">>, <<"5", "6", "0">>, <<"6", "0", "0">>, <<"8", "0", "0">>, <<"1", "0", "0", "0">>}),
        li \in Opt("lifetime", {<<"0">>, <<"3">>, <<"4">>, <<"5">>}),
        en \in Opt("energy_demand", {<<"0", ".">>, <<"1", "0", "0", ".">>, <<"3", "0", "0", ".">>})}

\* The base report with the name and the screen size varied.
DocsName ==
    {Doc(Merge(Merge(Drop(BasePrimary, {"name", "screen_size"}), nm), sc),
         [x \in FallbackGroups |-> IF x = "screen_size" THEN rs ELSE <<>>], <<>>, EmptyDict) :
        nm \in Opt("name", {NamePlain, NameTower, NameBook}),
        sc \in Opt("screen_size", {<<"2", "4">>}),
        rs \in {<<>>, <<One("screen_size", <<"2">>)>>}}

\* A document none of the primary patterns matches.
DocsUnmatched ==
    {Doc(EmptyDict, NoRegions, imgs, EmptyDict) : imgs \in {<<>>, <<[placeholder |-> FALSE, out |-> [use |-> 30]]>>}}

Documents ==
    DocsUnmatched \cup DocsCapture \cup DocsTier \cup DocsChart \cup DocsCorrector \cup DocsName

\* Every capture lies in the language of its pattern group.
WellFormed(document) ==
    /\ \A k \in DOMAIN document.primary : PrimaryGroupOk(k, document.primary[k])
    /\ ("footprint_with_error" \in DOMAIN document.primary) = ("tolerance" \in DOMAIN document.primary)
    /\ \A g \in FallbackGroups : \A i \in 1..Len(document.regions[g]) :
          /\ DOMAIN document.regions[g][i] \subseteq {g}
          /\ \A k \in DOMAIN document.regions[g][i] : FallbackGroupOk(k, document.regions[g][i][k])

\* ------------------------------------------------------------- state
VARIABLES
    doc,          \* the document being parsed (body and pdf_filename)
    pc,           \* the position of parse in its body
    extracted,    \* the primary tier's field map
    result,       \* the record under construction
    searched,     \* the anchor phrases handed to pdf.search_text so far
    pie_data,     \* the accepted chart output
    img,          \* the index of the next image of the scan
    analysed,     \* the indices of the images handed to unpie.analyze, in order
    elec_factor,  \* the electricity factor, None until computed
    before,       \* the record as it entered the automatic fixes
    yielded,      \* the records yielded so far
    raised,       \* the exception that left parse, "none" if none
    logged        \* the logging.error calls so far

vars ==
    <<doc, pc, extracted, result, searched, pie_data, img, analysed, elec_factor, before, yielded, raised, logged>>

\* A step's outcome: the record after it and the exception it raised.
Ok(res) ==
    [res |-> res, err |-> "none"]

Fail(res, e) ==
    [res |-> res, err |-> e]

\* A conversion's outcome: the value, and the exception raised instead.
Val(v) ==
    [v |-> v, err |-> "none"]

Err(e) ==
    [v |-> None, err |-> e]

\* float(s)
ToFloat(s) ==
    IF FloatOk(s) THEN Val(Num(FloatOf(s))) ELSE Err("ValueError")

\* ------------------------------------------------------------- name and category
\* pdf_filename.split('/')[-1]
RECURSIVE LastSegment(_)
LastSegment(s) ==
    IF \E i \in 1..Len(s) : s[i] = "/"
    THEN LastSegment(SubSeq(s, (CHOOSE i \in 1..Len(s) : s[i] = "/") + 1, Len(s)))
    ELSE s

\* The first entry of _CATEGORIES whose keyword the name contains, 0 if none.
CategoryIndex(name) ==
    LET hits == {i \in 1..Len(CATEGORIES) : Contains(CATEGORIES[i].keyword, name)}
    IN  IF hits = {} THEN 0 ELSE CHOOSE i \in hits : \A j \in hits : i <= j

NameStep(ex, res, filename) ==
    LET nm == Strip(ex["name"])
        c == CategoryIndex(nm)
        named == IF Has(ex, "name")
                 THEN LET r1 == IF c = 0 THEN res
                                ELSE Put(Put(res, "category", Str(<<CATEGORIES[c].category>>)),
                                         "subcategory", Str(<<CATEGORIES[c].subcategory>>))
                      IN  Put(r1, "name", Str(Remove(<<"H", "P", " ">>, nm)))
                 ELSE Put(res, "name", Str(LastSegment(filename)))
    IN  IF Has(named, "category") THEN named
        ELSE Put(Put(named, "category", Str(<<"Workplace">>)),
                 "subcategory", Str(<<IF Has(ex, "screen_size") THEN "Monitor" ELSE "Workstation">>))

\* ------------------------------------------------------------- footprint
\* try: float(s.strip()) except ValueError: None
FloatOrNone(s) ==
    IF FloatOk(Strip(s)) THEN Num(FloatOf(Strip(s))) ELSE None

ErrorRatio(tol, total) ==
    IF ~Truthy(total) THEN None
    ELSE IF ~FloatOk(Strip(tol)) THEN None
    ELSE Num(PyRound4(RDiv(FloatOf(Strip(tol)), RatOf(total))))

FootprintStep(ex, res) ==
    IF Has(ex, "footprint_with_error") /\ Has(ex, "tolerance")
    THEN LET total == FloatOrNone(ex["footprint_with_error"])
         IN  Put(Put(res, "gwp_total", total), "gwp_error_ratio", ErrorRatio(ex["tolerance"], total))
    ELSE IF Has(ex, "footprint")
    THEN Put(res, "gwp_total", FloatOrNone(ex["footprint"]))
    ELSE Put(res, "gwp_total", None)

DateStep(ex, res) ==
    IF Has(ex, "date") THEN Put(res, "report_date", Str(ex["date"])) ELSE res

\* ------------------------------------------------------------- the six tiered fields
\* What parse stores for a primary capture of group g.
PrimaryConvert(g, s) ==
    CASE g = "weight" -> ToFloat(RemoveSpaces(s))
      [] g \in {"screen_size", "lifetime"} -> ToFloat(s)
      [] g = "energy_demand" -> IF Strip(s) # <<>> THEN ToFloat(Strip(s)) ELSE Val(None)
      [] OTHER -> Val(Str(s))

\* Whether the scan of the anchor occurrences stops at this neighbourhood.
RegionHit(g, region) ==
    /\ Has(region, g)
    /\ g = "energy_demand" => Strip(region[g]) # <<>>

\* What parse stores for a fallback capture of group g.
FallbackConvert(g, s) ==
    CASE g = "lifetime" -> ToFloat(s)
      [] g = "energy_demand" -> ToFloat(Strip(s))
      [] OTHER -> Val(Str(s))

\* The first neighbourhood the scan stops at, 0 if none.
FirstHit(g, regions) ==
    LET hits == {i \in 1..Len(regions) : RegionHit(g, regions[i])}
    IN  IF hits = {} THEN 0 ELSE CHOOSE i \in hits : \A j \in hits : i <= j

\* The anchor search run for every group, matched by the primary tier or not.
UsesFallbackAlways(ex, g) ==
    TRUE

\* Whether parse searches the anchor phrase of group g.
UsesFallback(ex, g) ==
    ~Has(ex, g)

\* One "if group in extracted: ... else: for block, page in search_text"
\* statement of parse, for group g stored as field f.
TierStep(g, f, ex, regions, res) ==
    IF ~UsesFallback(ex, g)
    THEN LET c == PrimaryConvert(g, ex[g])
         IN  IF c.err # "none" THEN Fail(res, c.err) ELSE Ok(Put(res, f, c.v))
    ELSE LET i == FirstHit(g, regions)
             c == FallbackConvert(g, regions[i][g])
         IN  IF i = 0 THEN Ok(res)
             ELSE IF c.err # "none" THEN Fail(res, c.err)
             ELSE Ok(Put(res, f, c.v))

\* ------------------------------------------------------------- phase ratios
\* float(s)/100
Percent(s) ==
    LET c == ToFloat(s)
    IN  IF c.err # "none" THEN c ELSE Val(Num(RDiv(RatOf(c.v), RInt(100))))

RatioStep(ex, res) ==
    LET present == PhaseRatioFields \cap DOMAIN ex
    IN  IF \E k \in present : Percent(ex[k]).err # "none"
        THEN Fail(res, "ValueError")
        ELSE Ok([k \in DOMAIN res \cup present |-> IF k \in present THEN Percent(ex[k]).v ELSE res[k]])

ProvenanceStep(res) ==
    Put(Put(Put(res, "added_date", Str(<<"today">>)), "add_method", Str(<<"HP Auto Parser">>)),
        "manufacturer", Str(<<"HP">>))

\* ------------------------------------------------------------- chart inference
\* if unpie_output and len(unpie_output.keys()) > len(pie_data.keys())
AcceptOutput(pie, out) ==
    /\ DOMAIN out # {}
    /\ Cardinality(DOMAIN out) > Cardinality(DOMAIN pie)

\* A scan that never breaks.
StopScanNever(out) ==
    FALSE

\* Whether the scan breaks after accepting out.
StopScan(out) ==
    "use" \in DOMAIN out

RECURSIVE SumShares(_, _)
SumShares(pie, ks) ==
    IF ks = {} THEN 0
    ELSE LET k == CHOOSE x \in ks : TRUE
         IN  pie[k] + SumShares(pie, ks \ {k})

\* unpie.auto_prod(pie_data): the production phase derived as the
\* complement of the recognized phases of a partial phase set.  An empty
\* mapping is no partial phase set and comes back as it is.
auto_prod(pie) ==
    IF DOMAIN pie = {} THEN pie
    ELSE Put(pie, "prod", 100 - SumShares(pie, DOMAIN pie))

\* any(value > 0 for value in pie_data.values() if isinstance(value, (int, float)))
HasPositive(pie) ==
    \E k \in DOMAIN pie : pie[k] > 0

\* The record field of a chart phase.
PhaseField(phase) ==
    CASE phase = "use" -> "gwp_use_ratio"
      [] phase = "prod" -> "gwp_manufacturing_ratio"
      [] phase = "eol" -> "gwp_eol_ratio"
      [] OTHER -> "gwp_transport_ratio"

\* unpie.append_to_boavizta(result, pie_data): each recognized phase share
\* written to its ratio field as a fraction.
AppendToBoavizta(res, pie) ==
    LET fields == {PhaseField(ph) : ph \in DOMAIN pie}
        phaseOf(f) == CHOOSE ph \in DOMAIN pie : PhaseField(ph) = f
    IN  [k \in DOMAIN res \cup fields |->
            IF k \in fields THEN Num(Rat(pie[phaseOf(k)], 100)) ELSE res[k]]

MergeStep(res, pie) ==
    IF HasPositive(pie) THEN AppendToBoavizta(res, pie) ELSE res

\* ------------------------------------------------------------- automatic fixes
KnownFactors ==
    <<Rat(686, 1000), Rat(525, 1000)>>

BandLow ==
    Rat(52, 100)

BandHigh ==
    Rat(695, 1000)

MinShift ==
    Rat(6, 10)

IntTolerance ==
    Rat(1, 10)

DefectLow ==
    Rat(34, 100)

DefectHigh ==
    Rat(46, 100)

TotalFactor ==
    Rat(525, 1000)

\* ' '.join([comment, note])
Join(comment, note) ==
    comment \o <<" ", note>>

\* if 'gwp_use_ratio' in result and 'yearly_tec' in result and result.get('gwp_total')
CorrectorGuard(res) ==
    /\ Has(res, "gwp_use_ratio")
    /\ Has(res, "yearly_tec")
    /\ Has(res, "gwp_total")
    /\ Truthy(res["gwp_total"])

\* The exception the factor expression raises on res, "none" if none.
FactorError(res) ==
    IF ~Has(res, "lifetime") THEN "KeyError"
    ELSE IF res["lifetime"].t # "num" \/ res["yearly_tec"].t # "num" THEN "TypeError"
    ELSE IF res["lifetime"].n = 0 \/ res["yearly_tec"].n = 0 THEN "ZeroDivisionError"
    ELSE "none"

\* gwp_use_ratio * gwp_total / (lifetime * yearly_tec)
ElecFactor(res) ==
    RDiv(RMul(RatOf(res["gwp_use_ratio"]), RatOf(res["gwp_total"])),
         RMul(RatOf(res["lifetime"]), RatOf(res["yearly_tec"])))

\* elec_factor * lifetime / expected_factor
ExpectedLifetime(f, lifetime, expected) ==
    RDiv(RMul(f, lifetime), expected)

\* Fix #1 without the test of the plausible band.
LifetimeMismatchNoBand(f, lifetime, expected) ==
    LET e == ExpectedLifetime(f, lifetime, expected)
    IN  /\ RLt(MinShift, RAbs(RSub(e, lifetime)))
        /\ RLt(RAbs(RSub(e, RInt(PyRound(e)))), IntTolerance)

\* The condition of fix #1 for one expected factor.
LifetimeMismatch(f, lifetime, expected) ==
    LET e == ExpectedLifetime(f, lifetime, expected)
    IN  /\ RLt(f, BandLow) \/ RLt(BandHigh, f)
        /\ RLt(MinShift, RAbs(RSub(e, lifetime)))
        /\ RLt(RAbs(RSub(e, RInt(PyRound(e)))), IntTolerance)

\* The first known factor fix #1 fires for, 0 if none.
MismatchIndex(f, lifetime) ==
    LET hits == {i \in 1..Len(KnownFactors) : LifetimeMismatch(f, lifetime, KnownFactors[i])}
    IN  IF hits = {} THEN 0 ELSE CHOOSE i \in hits : \A j \in hits : i <= j

\* Fix #1 overwriting the lifetime without its note.
FixLifetimeSilent(res, f, i) ==
    LET e == ExpectedLifetime(f, RatOf(res["lifetime"]), KnownFactors[i])
    IN  Put(res, "lifetime", Num(RInt(PyRound(e))))

\* The record after fix #1 overwrote its lifetime.
FixLifetime(res, f, i) ==
    LET e == ExpectedLifetime(f, RatOf(res["lifetime"]), KnownFactors[i])
    IN  Put(Put(res, "lifetime", Num(RInt(PyRound(e)))),
            "comment", Str(Join(res["comment"].s, "fixed lifetime")))

\* Fix #1 leaving the factor as it was computed with the old lifetime.
LifetimeRuleStale(res, f) ==
    LET i == MismatchIndex(f, RatOf(res["lifetime"]))
        fixed == FixLifetime(res, f, i)
    IN  IF i = 0 THEN [res |-> res, f |-> f, err |-> "none"]
        ELSE [res |-> fixed, f |-> f, err |-> FactorError(fixed)]

\* Fix #1: the record, the factor and the exception after the loop over the
\* known factors.
LifetimeRule(res, f) ==
    LET i == MismatchIndex(f, RatOf(res["lifetime"]))
        fixed == FixLifetime(res, f, i)
    IN  IF i = 0 THEN [res |-> res, f |-> f, err |-> "none"]
        ELSE IF FactorError(fixed) # "none" THEN [res |-> fixed, f |-> f, err |-> FactorError(fixed)]
        ELSE [res |-> fixed, f |-> ElecFactor(fixed), err |-> "none"]

\* if elec_factor > 0.34 and elec_factor < 0.46
TotalDefect(f) ==
    RLt(DefectLow, f) /\ RLt(f, DefectHigh)

\* The record after fix #2 rescaled its total.
FixTotal(res, f) ==
    Put(Put(res, "gwp_total", Num(RMul(RatOf(res["gwp_total"]), RDiv(TotalFactor, f)))),
        "comment", Str(Join(res["comment"].s, "fixed gwp_total")))

TotalRule(res, f) ==
    IF TotalDefect(f) THEN FixTotal(res, f) ELSE res

\* ------------------------------------------------------------- parse
Init ==
    /\ doc \in {d \in Documents : WellFormed(d)}
    /\ pc = "extract"
    /\ extracted = EmptyDict
    /\ result = EmptyDict
    /\ searched = {}
    /\ pie_data = EmptyDict
    /\ img = 1
    /\ analysed = <<>>
    /\ elec_factor = None
    /\ before = EmptyDict
    /\ yielded = <<>>
    /\ raised = "none"
    /\ logged = <<>>

\* An exception leaves the generator: nothing more runs, nothing is yielded.
Raise(e) ==
    /\ pc' = "raised"
    /\ raised' = e

\* result = DeviceCarbonFootprintData(); comment = ''; the primary tier; the
\* early return when it matched nothing.
Extract ==
    /\ pc = "extract"
    /\ extracted' = doc.primary
    /\ result' = [comment |-> Str(<<>>)]
    /\ IF DOMAIN doc.primary = {}
       THEN /\ logged' = Append(logged, "did not match the HP pattern")
            /\ pc' = "done"
       ELSE /\ logged' = logged
            /\ pc' = "name"
    /\ UNCHANGED <<doc, searched, pie_data, img, analysed, elec_factor, before, yielded, raised>>

Name ==
    /\ pc = "name"
    /\ result' = NameStep(extracted, result, doc.filename)
    /\ logged' = IF Has(extracted, "name") THEN logged ELSE Append(logged, "no name extracted")
    /\ pc' = "footprint"
    /\ UNCHANGED <<doc, extracted, searched, pie_data, img, analysed, elec_factor, before, yielded, raised>>

Footprint ==
    /\ pc = "footprint"
    /\ result' = DateStep(extracted, FootprintStep(extracted, result))
    /\ logged' = IF Has(extracted, "footprint") \/ (Has(extracted, "footprint_with_error") /\ Has(extracted, "tolerance"))
                 THEN logged ELSE Append(logged, "no footprint extracted")
    /\ pc' = FallbackFields[1].group
    /\ UNCHANGED <<doc, extracted, searched, pie_data, img, analysed, elec_factor, before, yielded, raised>>

\* The statement of parse for the i-th tiered field.
Tier(i) ==
    LET g == FallbackFields[i].group
        out == TierStep(g, FallbackFields[i].field, extracted, doc.regions[g], result)
    IN  /\ pc = g
        /\ searched' = IF UsesFallback(extracted, g) THEN searched \cup {FallbackFields[i].anchor} ELSE searched
        /\ IF out.err # "none"
           THEN Raise(out.err) /\ UNCHANGED result
           ELSE /\ result' = out.res
                /\ pc' = IF i < Len(FallbackFields) THEN FallbackFields[i + 1].group ELSE "ratios"
                /\ UNCHANGED raised
        /\ UNCHANGED <<doc, extracted, pie_data, img, analysed, elec_factor, before, yielded, logged>>

Weight ==
    Tier(1)

ScreenSize ==
    Tier(2)

AssemblyLocation ==
    Tier(3)

Lifetime ==
    Tier(4)

UseLocation ==
    Tier(5)

EnergyDemand ==
    Tier(6)

Ratios ==
    LET out == RatioStep(extracted, result)
    IN  /\ pc = "ratios"
        /\ IF out.err # "none"
           THEN Raise(out.err) /\ UNCHANGED result
           ELSE result' = out.res /\ pc' = "provenance" /\ UNCHANGED raised
        /\ UNCHANGED <<doc, extracted, searched, pie_data, img, analysed, elec_factor, before, yielded, logged>>

\* The provenance fields, and the test whether the chart reader is needed.
Provenance ==
    /\ pc = "provenance"
    /\ result' = ProvenanceStep(result)
    /\ pc' = IF NeededRatios \subseteq DOMAIN result THEN "fixes"
             ELSE IF Len(doc.images) = 0 THEN "render" ELSE "scan"
    /\ UNCHANGED <<doc, extracted, searched, pie_data, img, analysed, elec_factor, before, yielded, raised, logged>>

\* One iteration of the loop over the embedded images.
ScanImage ==
    LET image == doc.images[img]
        accept == ~image.placeholder /\ AcceptOutput(pie_data, image.out)
    IN  /\ pc = "scan"
        /\ img <= Len(doc.images)
        /\ analysed' = IF image.placeholder THEN analysed ELSE Append(analysed, img)
        /\ pie_data' = IF accept THEN image.out ELSE pie_data
        /\ img' = img + 1
        /\ pc' = IF (accept /\ StopScan(image.out)) \/ img = Len(doc.images) THEN "render" ELSE "scan"
        /\ UNCHANGED <<doc, extracted, result, searched, elec_factor, before, yielded, raised, logged>>

\* if not pie_data: the chart reader on the lower half of the rendered page.
PageRender ==
    /\ pc = "render"
    /\ pie_data' = IF DOMAIN pie_data = {} THEN doc.render ELSE pie_data
    /\ pc' = "auto_prod"
    /\ UNCHANGED <<doc, extracted, result, searched, img, analysed, elec_factor, before, yielded, raised, logged>>

AutoProd ==
    /\ pc = "auto_prod"
    /\ IF "prod" \in DOMAIN pie_data
       THEN pie_data' = pie_data
       ELSE pie_data' = auto_prod(pie_data)
    /\ pc' = "merge"
    /\ UNCHANGED <<doc, extracted, result, searched, img, analysed, elec_factor, before, yielded, raised, logged>>

MergeChart ==
    /\ pc = "merge"
    /\ result' = MergeStep(result, pie_data)
    /\ pc' = "fixes"
    /\ UNCHANGED <<doc, extracted, searched, pie_data, img, analysed, elec_factor, before, yielded, raised, logged>>

\* The guard of the automatic fixes and the electricity factor.
ComputeFactor ==
    /\ pc = "fixes"
    /\ before' = result
    /\ IF ~CorrectorGuard(result)
       THEN pc' = "yield" /\ UNCHANGED <<elec_factor, raised>>
       ELSE IF FactorError(result) # "none"
       THEN Raise(FactorError(result)) /\ UNCHANGED elec_factor
       ELSE /\ elec_factor' = Num(ElecFactor(result))
            /\ pc' = "fix_lifetime"
            /\ UNCHANGED raised
    /\ UNCHANGED <<doc, extracted, result, searched, pie_data, img, analysed, yielded, logged>>

RepairLifetime ==
    LET out == LifetimeRule(result, RatOf(elec_factor))
    IN  /\ pc = "fix_lifetime"
        /\ result' = out.res
        /\ elec_factor' = Num(out.f)
        /\ IF out.err # "none"
           THEN Raise(out.err)
           ELSE pc' = "fix_total" /\ UNCHANGED raised
        /\ UNCHANGED <<doc, extracted, searched, pie_data, img, analysed, before, yielded, logged>>

RepairTotal ==
    /\ pc = "fix_total"
    /\ result' = TotalRule(result, RatOf(elec_factor))
    /\ pc' = "yield"
    /\ UNCHANGED <<doc, extracted, searched, pie_data, img, analysed, elec_factor, before, yielded, raised, logged>>

Yield ==
    /\ pc = "yield"
    /\ yielded' = Append(yielded, result)
    /\ pc' = "done"
    /\ UNCHANGED <<doc, extracted, result, searched, pie_data, img, analysed, elec_factor, before, raised, logged>>

Next ==
    \/ Extract
    \/ Name
    \/ Footprint
    \/ Weight
    \/ ScreenSize
    \/ AssemblyLocation
    \/ Lifetime
    \/ UseLocation
    \/ EnergyDemand
    \/ Ratios
    \/ Provenance
    \/ ScanImage
    \/ PageRender
    \/ AutoProd
    \/ MergeChart
    \/ ComputeFactor
    \/ RepairLifetime
    \/ RepairTotal
    \/ Yield

Spec ==
    Init /\ [][Next]_vars

\* ------------------------------------------------------------- properties
\* parse has ended: it returned, or an exception left it.
Ended ==
    pc \in {"done", "raised"}

\* The field k of record r is missing or None.
Absent(r, k) ==
    ~Has(r, k) \/ r[k].t = "none"

\* The field k of record r is missing, None or zero.
AbsentOrZero(r, k) ==
    Absent(r, k) \/ (r[k].t = "num" /\ r[k].n = 0)

\* The stored value of field k, None when missing.
Field(r, k) ==
    IF Has(r, k) THEN r[k] ELSE None

\* The automatic fixes have been entered.
FixesEntered ==
    before # EmptyDict

\* C1: for every document parse yields at most one record; it yields none
\* exactly when the primary tier matched nothing, and then it only logs and
\* returns, raising nothing.
C1_ZeroRecordsIffUnmatched ==
    /\ Len(yielded) <= 1
    /\ Ended => ((Len(yielded) = 0) <=> (DOMAIN doc.primary = {}))
    /\ (Ended /\ DOMAIN doc.primary = {}) => (raised = "none" /\ Len(logged) = 1)

\* The four inputs of the electricity factor.
FactorInputs ==
    {"gwp_use_ratio", "yearly_tec", "lifetime", "gwp_total"}

\* C2: the corrector computes the electricity factor and evaluates its
\* repair rules only when gwp_use_ratio, yearly_tec, lifetime and gwp_total
\* are all present and non-zero; when one of them is absent, None or zero,
\* no factor is computed, no rule fires, no exception is raised and the
\* record is yielded with lifetime, gwp_total and comment unchanged.
C2_CorrectorSkipsIncompleteRecord ==
    (FixesEntered /\ \E k \in FactorInputs : AbsentOrZero(before, k)) =>
        /\ raised = "none"
        /\ elec_factor = None
        /\ \A k \in {"lifetime", "gwp_total", "comment"} : Field(result, k) = Field(before, k)
        /\ pc = "done" => yielded = <<before>>

\* Whether the value v is a number in [0, 1].
InUnitInterval(v) ==
    /\ v.t = "num"
    /\ v.n >= 0
    /\ v.n <= v.d

\* C3: in every yielded record each lifecycle-phase ratio field that is
\* present has a value in [0, 1], whatever percentage text was captured.
C3_RatiosInUnitInterval ==
    \A i \in 1..Len(yielded) : \A k \in PhaseRatioFields \cap DOMAIN yielded[i] :
        InUnitInterval(yielded[i][k])

\* The numeric groups of a document, each with the record field it feeds.
NumericGroups ==
    {<<"footprint_with_error", "gwp_total">>, <<"footprint", "gwp_total">>, <<"tolerance", "gwp_error_ratio">>,
     <<"weight", "weight">>, <<"screen_size", "screen_size">>, <<"lifetime", "lifetime">>,
     <<"energy_demand", "yearly_tec">>, <<"gwp_use_ratio", "gwp_use_ratio">>,
     <<"gwp_manufacturing_ratio", "gwp_manufacturing_ratio">>, <<"gwp_eol_ratio", "gwp_eol_ratio">>,
     <<"gwp_transport_ratio", "gwp_transport_ratio">>}

\* The captures parse reads for group g: the primary capture, or else, for a
\* tiered group, the captures of the anchor neighbourhoods.
CapturesRead(g) ==
    IF Has(doc.primary, g) THEN {doc.primary[g]}
    ELSE IF g \in FallbackGroups
    THEN {doc.regions[g][i][g] : i \in {j \in 1..Len(doc.regions[g]) : Has(doc.regions[g][j], g)}}
    ELSE {}

\* Text that holds no number, however its blanks are treated.
Unconvertible(s) ==
    ~FloatOk(RemoveSpaces(s))

\* C4: whenever a pattern match captures text that is not convertible to a
\* number for a numeric field, from the primary or a fallback tier, parse
\* leaves that field absent, raises nothing and still yields the record.
C4_UnconvertibleCaptureLeavesFieldAbsent ==
    (Ended /\ DOMAIN doc.primary # {}) =>
        \A gf \in NumericGroups :
            (\A s \in CapturesRead(gf[1]) : Unconvertible(s)) /\ CapturesRead(gf[1]) # {} =>
                /\ raised = "none"
                /\ Len(yielded) = 1
                /\ Absent(yielded[1], gf[2])

\* What the record holds for a primary capture s of the tiered group g:
\* the number it spells for the numeric groups, the text for the locations.
StoredPrimary(g, s) ==
    CASE g = "weight" -> Num(FloatOf(RemoveSpaces(s)))
      [] g \in {"screen_size", "lifetime"} -> Num(FloatOf(s))
      [] g = "energy_demand" -> Num(FloatOf(Strip(s)))
      [] OTHER -> Str(s)

\* The audit notes as they appear in the comment.
LifetimeNote ==
    <<"fixed lifetime">>

TotalNote ==
    <<"fixed gwp_total">>

\* Tier precedence, for the i-th tiered field: the anchor phrase is searched
\* only when the primary map lacks the group, and a record yielded for a
\* document whose primary map has the group holds the primary value.
TierPrecedence(i, repairable) ==
    LET g == FallbackFields[i].group
        f == FallbackFields[i].field
        a == FallbackFields[i].anchor
        kept(y) == /\ Has(y, f)
                   /\ \/ y[f] = StoredPrimary(g, doc.primary[g])
                      \/ /\ repairable
                         /\ f = "lifetime"
                         /\ Contains(LifetimeNote, y["comment"].s)
                         /\ Field(before, f) = StoredPrimary(g, doc.primary[g])
    IN  /\ a \in searched => ~Has(doc.primary, g)
        /\ Has(doc.primary, g) => \A j \in 1..Len(yielded) : kept(yielded[j])
        /\ ~Has(doc.primary, g) => \A j \in 1..Len(yielded) : Has(yielded[j], f) => a \in searched

\* C5 (as claimed): for each of the six tiered fields, when the primary tier
\* produced a value the anchor search and fallback patterns are never
\* evaluated and the yielded record holds the primary value; a fallback
\* value is written only when the primary map lacks the field.
C5_PrimaryValueKept ==
    \A i \in 1..Len(FallbackFields) : TierPrecedence(i, FALSE)

\* C5 (amended): the same, except that the lifetime of the yielded record
\* may be the one the lifetime-repair rule put in place of the primary
\* value, the comment then holding "fixed lifetime".
C5_PrimaryValueKeptUnlessRepaired ==
    \A i \in 1..Len(FallbackFields) : TierPrecedence(i, TRUE)

\* A record was yielded for a document in which a tiered field has both a
\* primary capture and an anchor neighbourhood its fallback patterns match.
C5_Witness ==
    /\ pc = "done"
    /\ Len(yielded) = 1
    /\ \E i \in 1..Len(FallbackFields) :
          /\ Has(doc.primary, FallbackFields[i].group)
          /\ FirstHit(FallbackFields[i].group, doc.regions[FallbackFields[i].group]) # 0
          /\ yielded[1][FallbackFields[i].field] = StoredPrimary(FallbackFields[i].group, doc.primary[FallbackFields[i].group])

\* C6: every correction leaves an audit trace.  The comment starts empty
\* and only grows, by the lifetime note and then the total note, each at
\* most once; it holds "fixed lifetime" exactly when the corrector changed
\* lifetime and "fixed gwp_total" exactly when it changed gwp_total.
C6_AuditTrace ==
    Has(result, "comment") =>
        LET c == result["comment"].s
        IN  /\ c \in {<<>>, <<" ">> \o LifetimeNote, <<" ">> \o TotalNote,
                      <<" ">> \o LifetimeNote \o <<" ">> \o TotalNote}
            /\ ~FixesEntered => c = <<>>
            /\ FixesEntered =>
                  /\ before["comment"].s = <<>>
                  /\ Contains(LifetimeNote, c) <=> Field(result, "lifetime") # Field(before, "lifetime")
                  /\ Contains(TotalNote, c) <=> Field(result, "gwp_total") # Field(before, "gwp_total")
            /\ \A j \in 1..Len(yielded) : yielded[j] = result

\* A record was yielded whose lifetime the corrector repaired.
C6_Witness ==
    /\ pc = "done"
    /\ Len(yielded) = 1
    /\ Contains(LifetimeNote, yielded[1]["comment"].s)
    /\ yielded[1]["lifetime"] # before["lifetime"]

\* The electricity factor a record implies.
ImpliedFactor(use, total, lifetime, tec) ==
    RDiv(RMul(use, total), RMul(lifetime, tec))

\* The lifetime the repair rule leaves for factor f and reported lifetime l:
\* the first of 0.686, 0.525 for which f lies outside [0.52, 0.695] and
\* f*l/constant is within 0.1 of an integer and more than 0.6 away from l
\* gives that integer; otherwise l.
RepairedLifetime(f, l) ==
    LET alt(c) == RDiv(RMul(f, l), c)
        near(x) == PyRound(x)
        qualifies(c) == /\ RLt(f, Rat(52, 100)) \/ RLt(Rat(695, 1000), f)
                        /\ RLt(RAbs(RSub(alt(c), RInt(near(alt(c))))), Rat(1, 10))
                        /\ RLt(Rat(6, 10), RAbs(RSub(alt(c), l)))
    IN  IF qualifies(Rat(686, 1000)) THEN RInt(near(alt(Rat(686, 1000))))
        ELSE IF qualifies(Rat(525, 1000)) THEN RInt(near(alt(Rat(525, 1000))))
        ELSE l

\* The lifetime-repair rule has run.
LifetimeRuleDone ==
    elec_factor # None /\ pc # "fix_lifetime"

\* C7: the corrector overwrites lifetime only when the factor lies outside
\* [0.52, 0.695] and, for the first of 0.686 and 0.525 that qualifies, the
\* alternative lifetime is within 0.1 of an integer and differs from the
\* reported one by more than 0.6; lifetime becomes that integer, and keeps
\* its reported value in every other case.
C7_LifetimeRepair ==
    LifetimeRuleDone =>
        LET b == before
            f == ImpliedFactor(RatOf(b["gwp_use_ratio"]), RatOf(b["gwp_total"]), RatOf(b["lifetime"]), RatOf(b["yearly_tec"]))
        IN  result["lifetime"] = Num(RepairedLifetime(f, RatOf(b["lifetime"])))

\* Scenario B (use share 30 %, total 500, lifetime 4, yearly TEC 300): the
\* factor 0.125 lies below the band and 0.125*4/0.525 is within 0.1 of 1, so
\* the yielded lifetime is 1.
C7_Witness ==
    /\ pc = "done"
    /\ Len(yielded) = 1
    /\ Field(before, "gwp_use_ratio") = Num(Rat(30, 100))
    /\ Field(before, "gwp_total") = Num(RInt(500))
    /\ Field(before, "lifetime") = Num(RInt(4))
    /\ Field(before, "yearly_tec") = Num(RInt(300))
    /\ yielded[1]["lifetime"] = Num(RInt(1))

\* The total-repair rule has run.
TotalRuleDone ==
    elec_factor # None /\ pc \in {"yield", "done"}

\* C8: the total-repair rule is evaluated once, after the lifetime rule, on
\* the factor recomputed with the possibly repaired lifetime; gwp_total is
\* multiplied by 0.525/factor exactly when 0.34 < factor < 0.46 and is left
\* alone otherwise, and after a rescale the implied factor is 0.525.
C8_TotalRepair ==
    TotalRuleDone =>
        LET use == RatOf(result["gwp_use_ratio"])
            tec == RatOf(result["yearly_tec"])
            life == RatOf(result["lifetime"])
            total == RatOf(before["gwp_total"])
            f == ImpliedFactor(use, total, life, tec)
            defect == RLt(Rat(34, 100), f) /\ RLt(f, Rat(46, 100))
        IN  /\ defect => /\ result["gwp_total"] = Num(RMul(total, RDiv(Rat(525, 1000), f)))
                         /\ ImpliedFactor(use, RatOf(result["gwp_total"]), life, tec) = Rat(525, 1000)
            /\ ~defect => result["gwp_total"] = before["gwp_total"]

\* A record was yielded whose total the corrector rescaled.
C8_Witness ==
    /\ pc = "done"
    /\ Len(yielded) = 1
    /\ elec_factor # None
    /\ yielded[1]["gwp_total"] # before["gwp_total"]
    /\ Contains(TotalNote, yielded[1]["comment"].s)

\* A chart output with no strictly positive share.
NoPositiveShare(out) ==
    \A k \in DOMAIN out : out[k] <= 0

\* The chart step (scan, page render, completion, merge) is over.
ChartDone ==
    pc \in {"fixes", "fix_lifetime", "fix_total", "yield", "done"}

\* C9: chart output is merged only if it holds a strictly positive share:
\* when every embedded image and the page render give an empty or all-zero
\* mapping, parse adds no lifecycle-phase field to the record and still
\* yields it, its phase fields as the text left them.
C9_NoChartNoPhaseFields ==
    (/\ ChartDone
     /\ \A i \in 1..Len(doc.images) : NoPositiveShare(doc.images[i].out)
     /\ NoPositiveShare(doc.render)) =>
        \A k \in PhaseRatioFields : Has(result, k) => Has(doc.primary, k) /\ result[k] = Percent(doc.primary[k]).v

\* The scan of the embedded images is over.
ScanDone ==
    pc = "render"

\* The outputs of the images analysed, in the order analysed.
AnalysedOutputs ==
    [j \in 1..Len(analysed) |-> doc.images[analysed[j]].out]

\* C10 (as claimed): the accepted output is the first with the most phase
\* labels, outputs with a "use" phase preferred: if any scanned image's
\* output contains "use", so does the accepted output; and no image is
\* analysed after it.
C10_AcceptedHasUseIfAnyScanned ==
    ScanDone =>
        ((\E j \in 1..Len(analysed) : "use" \in DOMAIN AnalysedOutputs[j]) => "use" \in DOMAIN pie_data)

\* The first of the outputs outs with the most labels, the empty mapping
\* when none has a label.
FirstWithMostLabels(outs) ==
    LET best == {j \in 1..Len(outs) : \A k \in 1..Len(outs) : Cardinality(DOMAIN outs[j]) >= Cardinality(DOMAIN outs[k])}
        first == CHOOSE j \in best : \A k \in best : j <= k
    IN  IF outs = <<>> \/ DOMAIN outs[first] = {} THEN EmptyDict ELSE outs[first]

\* C10 (amended): the images analysed are the non-placeholder images up to
\* where the scan stopped, in document order; the accepted output is the
\* first with the most phase labels among the outputs analysed; the scan
\* stops, analysing no further image, as soon as an output is accepted that
\* contains "use", and only then before the last image.  An output with
\* "use" is accepted only if it has more labels than every output before it.
C10_FirstWithMostLabelsAmongAnalysed ==
    ScanDone =>
        /\ analysed = SelectSeq([i \in 1..(img - 1) |-> i], LAMBDA i : ~doc.images[i].placeholder)
        /\ pie_data = FirstWithMostLabels(AnalysedOutputs)
        /\ img <= Len(doc.images) =>
              /\ "use" \in DOMAIN pie_data
              /\ analysed # <<>>
              /\ analysed[Len(analysed)] = img - 1
              /\ pie_data = doc.images[img - 1].out
        /\ \A j \in 1..Len(analysed) :
              (/\ "use" \in DOMAIN AnalysedOutputs[j]
               /\ \A k \in 1..(j - 1) : Cardinality(DOMAIN AnalysedOutputs[k]) < Cardinality(DOMAIN AnalysedOutputs[j]))
              => (j = Len(analysed) /\ pie_data = AnalysedOutputs[j])

\* The scan stopped on an accepted output with "use" while an image was
\* still to come.
C10_Witness ==
    /\ ScanDone
    /\ img <= Len(doc.images)
    /\ "use" \in DOMAIN pie_data

\* The name of the document holds none of the category keywords, or the
\* name is missing and the record takes the file name.
NoKeyword ==
    ~Has(doc.primary, "name") \/ CategoryIndex(Strip(doc.primary["name"])) = 0

\* C11: every yielded record whose name holds no category keyword (or came
\* from the file name) has category "Workplace", and subcategory "Monitor"
\* exactly when the record has a screen_size field, from either tier, and
\* "Workstation" exactly when it has none.
C11_DefaultSubcategoryFollowsScreenSize ==
    NoKeyword =>
        \A j \in 1..Len(yielded) :
            /\ Field(yielded[j], "category") = Str(<<"Workplace">>)
            /\ Field(yielded[j], "subcategory") = Str(<<"Monitor">>) <=> ~Absent(yielded[j], "screen_size")
            /\ Field(yielded[j], "subcategory") = Str(<<"Workstation">>) <=> Absent(yielded[j], "screen_size")

\* The fields the data model types as number or absent.
NumberFields ==
    {"weight", "screen_size", "lifetime", "yearly_tec"}

\* C12: in every yielded record each of weight, screen_size, lifetime and
\* yearly_tec is absent (missing or None) or a number, whichever tier the
\* value came from; raw matched text is never stored in these fields.
C12_NumberFieldsHoldNumbers ==
    \A j \in 1..Len(yielded) :
        \A f \in NumberFields :
            Absent(yielded[j], f) \/ yielded[j][f].t = "num"

\* The lifetime-repair rule overwrote the lifetime.
LifetimeOverwritten ==
    /\ FixesEntered
    /\ pc # "fix_lifetime"
    /\ Field(result, "lifetime") # Field(before, "lifetime")

\* C13: whenever the lifetime-repair rule overwrites lifetime, the new
\* lifetime is an integer of at least 1, so the factor recomputed right
\* after it never divides by zero and parse still yields the record, for
\* every input that passes the guard of the corrector.
C13_RepairedLifetimeAtLeastOne ==
    LifetimeOverwritten =>
        /\ result["lifetime"].t = "num"
        /\ result["lifetime"].d = 1
        /\ result["lifetime"].n >= 1
        /\ raised = "none"
        /\ pc = "done" => Len(yielded) = 1

====
